---- MODULE Spec2Model ----
(***************************************************************************)
(* Job queue of the GPU job platform: the worker endpoints of              *)
(* backend/app/routers/workers.py (claim, done, fail, heartbeat) and the   *)
(* JobOrchestrationService of backend/app/services/job_orchestration.py    *)
(* (claim_job, update_job_status, requeue_stuck_jobs) over the jobs table. *)
(*                                                                         *)
(* jobs is the committed content of the jobs table, indexed by job id.     *)
(* A claim that has locked a row but not yet committed is recorded in pc,  *)
(* sel and selAt: the row lock of SELECT ... FOR UPDATE SKIP LOCKED is     *)
(* held from the select step to the end of the transaction.                *)
(***************************************************************************)
EXTENDS Integers, Sequences, FiniteSets, TLC

VARIABLES jobs, now, pc, sel, selAt, ret, handed, gap, lost

\* Fleet controller of backend/app/services/vast_service.py: active is the
\* Redis key 'vast:active_instance_id', instances the instances at the
\* provider, mode the STOP_MODE setting; fpc and existing are the position and
\* the local instance id of each replica's call in flight, done the last
\* completed call of each replica, reuse the number of ensure calls in a row
\* that found the recorded instance running.
VARIABLES active, instances, mode, fpc, existing, done, reuse

\* swp is the requeue_stuck_jobs call in flight (the rows its query loaded),
\* client the position of each worker process in its loop (worker/executor.py,
\* backend/workers/worker.py), runs the number of times each job has entered
\* status running.
VARIABLES swp, runs, client

jobVars == <<jobs, now, pc, sel, selAt, ret, handed, gap, lost>>

auxVars == <<swp, runs, client>>

fleetVars == <<active, instances, mode, fpc, existing, done, reuse>>

vars == <<jobs, now, pc, sel, selAt, ret, handed, gap, lost,
          active, instances, mode, fpc, existing, done, reuse,
          swp, runs, client>>

(* ---------------------------- bounds ---------------------------------- *)
\* SpecFleet: instances the provider creates
MaxInstances == 2

\* SpecQueue: rows of the jobs table that are in use at a time, and the clock
QueueJobs == 2

QueueTime == 1

\* Spec: one job followed through its whole life
MaxJobs == 1
MaxTime == 3
MaxRetries == 3
\* SpecBacklog: a backlog of several jobs over a short time
BacklogJobs == 2
BacklogTime == 1
BacklogRetries == 0

(* ------------------------- program constants --------------------------- *)
Workers == {"w1", "w2"}
Kinds == {"generate_image", "train_lora"}
\* the (kind, priority) pairs submitted
Submissions == {<<"generate_image", 5>>, <<"train_lora", 9>>}
Results == {"r1"}
Errors == {"e1"}
Timeouts == {1, 2}
TimeoutError == "Job timed out after multiple retries"
Statuses == {"queued", "running", "completed", "failed", "cancelled"}

\* retries ceiling of update_job_status and requeue_stuck_jobs (retries >= 3)
RetryCeiling == 3

\* NULL of a nullable timestamp column / string column
NoTime == -1
NoWorker == "none"
NoResult == "none"
NoError == "none"

\* Job.retries column default of the Job model (create_job does not set it)
DefaultRetries == 0

(* ------------------------------ helpers -------------------------------- *)
JobIds == DOMAIN jobs


\* a create_job that hands the new job straight to a default worker
NewJobReserved(kind, priority) ==
  [kind |-> kind, status |-> "running", priority |-> priority,
   retries |-> DefaultRetries,
   reserved_by |-> "w1", reserved_at |-> now, started_at |-> now,
   created_at |-> now, updated_at |-> now, completed_at |-> NoTime,
   result_json |-> NoResult, error_message |-> NoError]

\* JobResponse.from_orm(job): the response of create_job carries the new id
Created(id) == "created " \o ToString(id)

\* Job(...) as built by create_job, with the column defaults of the table
NewJob(kind, priority) ==
  [kind |-> kind, status |-> "queued", priority |-> priority,
   retries |-> DefaultRetries,
   reserved_by |-> NoWorker, reserved_at |-> NoTime, started_at |-> NoTime,
   created_at |-> now, updated_at |-> now, completed_at |-> NoTime,
   result_json |-> NoResult, error_message |-> NoError]

\* updated_at column of the Job model: refreshed by every ORM UPDATE of the row
TouchUpdatedAt(job) == [job EXCEPT !.updated_at = now]

\* rows locked FOR UPDATE by a claim transaction that has not ended yet
Locked == {sel[w] : w \in {x \in Workers : pc[x] # "idle"}}

\* rows locked by a transaction other than the service session of w
LockedFor(w) ==
  {sel[x] : x \in {y \in Workers : pc[y] = "selected"
                                    \/ (pc[y] = "svc_claimed" /\ y # w)}}

EligibleNoSkip(kinds) ==
  {j \in JobIds : jobs[j].status = "queued" /\ jobs[j].kind \in kinds}

\* a claim query that forgets the status filter
EligibleAnyStatus(kinds) ==
  {j \in JobIds : jobs[j].kind \in kinds /\ j \notin Locked}

\* WHERE status = 'queued' [AND kind = ANY(kinds)] ... FOR UPDATE SKIP LOCKED
Eligible(kinds) ==
  {j \in JobIds : jobs[j].status = "queued" /\ jobs[j].kind \in kinds
                  /\ j \notin Locked}

FirstLowestPriority(S) ==
  {j \in S : \A k \in S :
     \/ jobs[k].priority > jobs[j].priority
     \/ (jobs[k].priority = jobs[j].priority
         /\ jobs[k].created_at >= jobs[j].created_at)}

\* ORDER BY priority DESC, created_at ASC ... LIMIT 1 / .first(): the rows
\* the query may return (more than one only when priority and created_at tie)
First(S) ==
  {j \in S : \A k \in S :
     \/ jobs[k].priority < jobs[j].priority
     \/ (jobs[k].priority = jobs[j].priority
         /\ jobs[k].created_at >= jobs[j].created_at)}

\* history (lost): the worker whose reservation the sweep last cleared
\* history: the callers a job was returned to since it last left queued
Handed(j, w) ==
  IF jobs[j].status = "queued" THEN {w} ELSE handed[j] \cup {w}

\* history: the longest interval between two successive signs of life of the
\* holder of a running job (the reservation at reserved_at, then each accepted
\* heartbeat or status update); the last sign of life is the job's updated_at
NextGap(j) ==
  IF jobs[j].status # "running" THEN 0
  ELSE IF now - jobs[j].updated_at > gap[j] THEN now - jobs[j].updated_at
  ELSE gap[j]

\* authorization that only asks whether the job is reserved at all
AuthorizedIfReserved(job, w) == job.reserved_by # NoWorker

AuthorizedAnyone(job, w) == TRUE

\* job.reserved_by != worker_id  ->  403 / return False
Authorized(job, w) == job.reserved_by = w

(* ------------------------------- Init ---------------------------------- *)
\* orchestrator replicas that call the fleet controller
Replicas == {"o1", "o2"}

\* settings.STOP_MODE: stop | destroy
StopModes == {"stop", "destroy"}

\* Python None: the Redis key is absent, a function returns None
NoInstance == 0

\* str(None), the instance id ensure_gpu_instance derives from a response
\* that carries neither 'id' nor 'instance_id'
StrNone == -1

NoCall == [op |-> "none", outcome |-> "none", ret |-> NoInstance]

\* no requeue_stuck_jobs call in flight
NoSweep == [at |-> "idle", stuck |-> {}, loaded |-> << >>]

\* a worker process about to call claim
Polling == [at |-> "poll", job |-> 0]

\* no job yet, no claim in flight
JobsInit ==
  /\ swp = NoSweep
  /\ runs = << >>
  /\ client = [w \in Workers |-> Polling]
  /\ jobs = << >>
  /\ now = 0
  /\ pc = [w \in Workers |-> "idle"]
  /\ sel = [w \in Workers |-> 0]
  /\ selAt = [w \in Workers |-> NoTime]
  /\ ret = "none"
  /\ handed = << >>
  /\ gap = << >>
  /\ lost = << >>

\* no instance recorded, none rented, no call in flight
FleetInit(modes) ==
  /\ active = NoInstance
  /\ instances = << >>
  /\ mode \in modes
  /\ fpc = [r \in Replicas |-> "idle"]
  /\ existing = [r \in Replicas |-> NoInstance]
  /\ done = [r \in Replicas |-> NoCall]
  /\ reuse = 0

Init ==
  /\ JobsInit
  /\ FleetInit({"stop"})

(* ------------------------------ actions -------------------------------- *)
\* working_main.create_job: always status = queued
EnqueueJob(kind, priority) ==
  /\ jobs' = Append(jobs, NewJob(kind, priority))
  /\ handed' = Append(handed, {})
  /\ gap' = Append(gap, 0)
  /\ ret' = Created(Len(jobs) + 1)
  /\ lost' = Append(lost, NoWorker)
  /\ UNCHANGED <<now, pc, sel, selAt>>

\* time passes
Tick ==
  /\ now' = now + 1
  /\ ret' = "none"
  /\ UNCHANGED <<jobs, pc, sel, selAt, handed, gap, lost>>

\* workers.claim_job, lines 25-36: the SELECT ... FOR UPDATE SKIP LOCKED; the
\* row stays locked until the commit. No row: 204.
ClaimSelect(w) ==
  /\ pc[w] = "idle"
  /\ LET c == First(Eligible(Kinds)) IN
       IF c = {}
       THEN /\ ret' = "claim 204"
            /\ UNCHANGED <<pc, sel>>
       ELSE \E j \in c :
            /\ pc' = [pc EXCEPT ![w] = "selected"]
            /\ sel' = [sel EXCEPT ![w] = j]
            /\ ret' = "none"
  /\ UNCHANGED <<jobs, now, selAt, handed, gap, lost>>

\* the row as written by workers.claim_job, lines 38-41
ClaimRow(job, w) ==
  TouchUpdatedAt([job EXCEPT !.status = "running", !.reserved_by = w,
                             !.reserved_at = now, !.started_at = now])

\* workers.claim_job, lines 38-44: update, commit, return the job
ClaimCommit(w) ==
  /\ pc[w] = "selected"
  /\ LET j == sel[w] IN
       /\ jobs' = [jobs EXCEPT ![j] = ClaimRow(@, w)]
       /\ handed' = [handed EXCEPT ![j] = Handed(j, w)]
       /\ gap' = [gap EXCEPT ![j] = 0]
       /\ ret' = "claim 200"
  /\ pc' = [pc EXCEPT ![w] = "idle"]
  /\ sel' = [sel EXCEPT ![w] = 0]
  /\ UNCHANGED <<now, selAt, lost>>

\* the row as written by workers.mark_done, lines 61-64
DoneRow(job, r) ==
  TouchUpdatedAt([job EXCEPT !.status = "completed", !.result_json = r,
                             !.error_message = NoError, !.completed_at = now])

\* workers.mark_done
MarkDone(w, j, r) ==
  /\ IF j \notin JobIds
     THEN /\ ret' = "404"
          /\ UNCHANGED <<jobs, gap>>
     ELSE IF ~Authorized(jobs[j], w)
     THEN /\ ret' = "403"
          /\ UNCHANGED <<jobs, gap>>
     ELSE /\ j \notin Locked
          /\ jobs' = [jobs EXCEPT ![j] = DoneRow(@, r)]
          /\ gap' = [gap EXCEPT ![j] = 0]
          /\ ret' = "204"
  /\ UNCHANGED <<now, pc, sel, selAt, handed, lost>>

\* the row as written by workers.mark_fail, lines 83-86
FailRow(job, e) ==
  TouchUpdatedAt([job EXCEPT !.status = "failed", !.error_message = e,
                             !.completed_at = now, !.retries = @ + 1])

\* workers.mark_fail
MarkFail(w, j, e) ==
  /\ IF j \notin JobIds
     THEN /\ ret' = "404"
          /\ UNCHANGED <<jobs, gap>>
     ELSE IF ~Authorized(jobs[j], w)
     THEN /\ ret' = "403"
          /\ UNCHANGED <<jobs, gap>>
     ELSE /\ j \notin Locked
          /\ jobs' = [jobs EXCEPT ![j] = FailRow(@, e)]
          /\ gap' = [gap EXCEPT ![j] = 0]
          /\ ret' = "204"
  /\ UNCHANGED <<now, pc, sel, selAt, handed, lost>>

\* the row as written by workers.job_heartbeat, line 125
HeartbeatRow(job) == [job EXCEPT !.updated_at = now]

\* workers.job_heartbeat
JobHeartbeat(w, j) ==
  /\ IF j \notin JobIds
     THEN /\ ret' = "404"
          /\ UNCHANGED <<jobs, gap>>
     ELSE IF ~Authorized(jobs[j], w)
     THEN /\ ret' = "403"
          /\ UNCHANGED <<jobs, gap>>
     ELSE /\ j \notin Locked
          /\ jobs' = [jobs EXCEPT ![j] = HeartbeatRow(@)]
          /\ gap' = [gap EXCEPT ![j] = NextGap(j)]
          /\ ret' = "204"
  /\ UNCHANGED <<now, pc, sel, selAt, handed, lost>>

\* job_kinds or [kind.value for kind in JobKind]
KindFilter(kinds) == IF kinds = {} THEN Kinds ELSE kinds

\* the row as written by the UPDATE of JobOrchestrationService.claim_job
SvcClaimRow(job, w, t) ==
  [job EXCEPT !.status = "running", !.reserved_by = w, !.reserved_at = t,
              !.started_at = t, !.updated_at = t]

\* the jobs table as the service session of w reads it: the committed rows
\* and the session's own uncommitted claim
View(w) ==
  IF pc[w] = "svc_claimed"
  THEN [jobs EXCEPT ![sel[w]] = SvcClaimRow(@, w, selAt[w])]
  ELSE jobs

\* JobOrchestrationService.claim_job: UPDATE ... WHERE id = (SELECT ... FOR
\* UPDATE SKIP LOCKED LIMIT 1) RETURNING *, then return the job; the method
\* does not commit, the transaction of the session stays open
SvcClaimJob(w, kinds) ==
  /\ pc[w] = "idle"
  /\ LET c == First(Eligible(KindFilter(kinds))) IN
       IF c = {}
       THEN /\ ret' = "None"
            /\ UNCHANGED <<pc, sel, selAt, handed, gap>>
       ELSE \E j \in c :
            /\ pc' = [pc EXCEPT ![w] = "svc_claimed"]
            /\ sel' = [sel EXCEPT ![w] = j]
            /\ selAt' = [selAt EXCEPT ![w] = now]
            /\ handed' = [handed EXCEPT ![j] = Handed(j, w)]
            /\ gap' = [gap EXCEPT ![j] = 0]
            /\ ret' = "job"
  /\ UNCHANGED <<jobs, now, lost>>

\* get_db: the session is closed without a commit, which rolls back
SvcSessionClose(w) ==
  /\ pc[w] = "svc_claimed"
  /\ pc' = [pc EXCEPT ![w] = "idle"]
  /\ sel' = [sel EXCEPT ![w] = 0]
  /\ selAt' = [selAt EXCEPT ![w] = NoTime]
  /\ ret' = "none"
  /\ UNCHANGED <<jobs, now, handed, gap, lost>>

\* JobOrchestrationService._is_valid_status_transition
IsValidStatusTransition(current, new) ==
  CASE current = "queued" -> new \in {"running", "cancelled"}
    [] current = "running" -> new \in {"completed", "failed", "cancelled"}
    [] current = "completed" -> FALSE
    [] current = "failed" -> new \in {"queued"}
    [] current = "cancelled" -> FALSE
    [] OTHER -> FALSE

\* the row as written by update_job_status, lines 102-124
StatusRow(job, st, result_data, error_message) ==
  LET base == [job EXCEPT !.status = st, !.updated_at = now] IN
  IF st = "completed"
  THEN [base EXCEPT !.completed_at = now,
                    !.result_json = IF result_data # NoResult THEN result_data ELSE @]
  ELSE IF st = "failed"
  THEN LET f == [base EXCEPT !.completed_at = now,
                   !.error_message = IF error_message # NoError THEN error_message ELSE @,
                   !.retries = @ + 1] IN
       IF f.retries >= RetryCeiling
       THEN [f EXCEPT !.status = "failed"]
       ELSE [f EXCEPT !.status = "queued", !.reserved_by = NoWorker,
                      !.reserved_at = NoTime]
  ELSE base

\* JobOrchestrationService.update_job_status, called on the session of w
UpdateJobStatus(w, j, st, result_data, error_message) ==
  /\ pc[w] # "selected"
  /\ LET v == View(w) IN
     IF \/ j \notin JobIds
        \/ ~Authorized(v[j], w)
        \/ ~IsValidStatusTransition(v[j].status, st)
     THEN /\ ret' = "False"
          /\ UNCHANGED <<jobs, pc, sel, selAt, gap>>
     ELSE /\ j \notin LockedFor(w)
          /\ jobs' = [v EXCEPT ![j] = StatusRow(@, st, result_data, error_message)]
          /\ gap' = [gap EXCEPT ![j] = IF st = "running" THEN now - v[j].reserved_at ELSE 0]
          /\ pc' = [pc EXCEPT ![w] = "idle"]
          /\ sel' = [sel EXCEPT ![w] = 0]
          /\ selAt' = [selAt EXCEPT ![w] = NoTime]
          /\ ret' = "True"
  /\ UNCHANGED <<now, handed, lost>>

\* a sweep that waits one time unit longer than its timeout
StuckLate(T) ==
  {j \in JobIds : /\ jobs[j].status = "running"
                  /\ jobs[j].reserved_at # NoTime
                  /\ jobs[j].reserved_at < now - T - 1}

\* requeue_stuck_jobs, lines 158-164: status == RUNNING and
\* reserved_at < utcnow() - timeout (a NULL reserved_at never compares less)
Stuck(T) ==
  {j \in JobIds : /\ jobs[j].status = "running"
                  /\ jobs[j].reserved_at # NoTime
                  /\ jobs[j].reserved_at < now - T}

\* a sweep that counts the timeout but leaves the job with its worker
SweepRowKeepsRunning(job) ==
  [job EXCEPT !.retries = @ + 1, !.updated_at = now]

SweepRowResetsRetries(job) ==
  [job EXCEPT !.status = "queued", !.reserved_by = NoWorker,
              !.reserved_at = NoTime, !.retries = 0, !.updated_at = now]

\* a sweep that puts the requeued job at the back of its priority band
SweepRowRestamps(job) ==
  [job EXCEPT !.status = "queued", !.reserved_by = NoWorker,
              !.reserved_at = NoTime, !.retries = @ + 1,
              !.created_at = now, !.updated_at = now]

\* the row as written by the loop of requeue_stuck_jobs, lines 168-178
SweepRow(job) ==
  LET r == [job EXCEPT !.status = "queued", !.reserved_by = NoWorker,
                       !.reserved_at = NoTime, !.retries = @ + 1,
                       !.updated_at = now] IN
  IF r.retries >= RetryCeiling
  THEN [r EXCEPT !.status = "failed", !.completed_at = now,
                 !.error_message = TimeoutError]
  ELSE r

\* JobOrchestrationService.requeue_stuck_jobs(timeout_minutes = T)
RequeueStuckJobs(T) ==
  /\ jobs' = [j \in JobIds |-> IF j \in Stuck(T) THEN SweepRow(jobs[j]) ELSE jobs[j]]
  /\ gap' = [j \in JobIds |-> IF j \in Stuck(T) THEN 0 ELSE gap[j]]
  /\ ret' = "swept"
  /\ lost' = [j \in JobIds |-> IF j \in Stuck(T) THEN jobs[j].reserved_by ELSE lost[j]]
  /\ UNCHANGED <<now, pc, sel, selAt, handed>>

\* jobs.cancel_job (DELETE /jobs/{job_id}): not implemented, raises 501
\* before it reads or writes anything
CancelJob(j) ==
  /\ ret' = "501"
  /\ UNCHANGED <<jobs, now, pc, sel, selAt, handed, gap, lost>>

\* the result and error arguments a caller passes with a status
StatusArgs(st) ==
  IF st = "completed" THEN (Results \cup {NoResult}) \X {NoError}
  ELSE IF st = "failed" THEN {NoResult} \X (Errors \cup {NoError})
  ELSE {<<NoResult, NoError>>}

\* every retries counter stays within the bound of the model
RetriesWithin(maxRetries) ==
  \A j \in JobIds : jobs[j].retries <= maxRetries

\* one call of any operation, while the number of jobs, the clock and the
\* retries counters stay within the given bounds
NextWithin(maxJobs, maxTime, maxRetries) ==
  \/ /\ Len(jobs) < maxJobs
     /\ \E s \in Submissions : EnqueueJob(s[1], s[2])
     /\ UNCHANGED <<fleetVars, auxVars>>
  \/ /\ now < maxTime
     /\ Tick
     /\ UNCHANGED <<fleetVars, auxVars>>
  \/ \E w \in Workers : ClaimSelect(w) /\ UNCHANGED <<fleetVars, auxVars>>
  \/ \E w \in Workers : ClaimCommit(w) /\ UNCHANGED <<fleetVars, auxVars>>
  \/ \E w \in Workers, j \in 1..maxJobs, r \in Results :
        MarkDone(w, j, r) /\ UNCHANGED <<fleetVars, auxVars>>
  \/ \E w \in Workers, j \in 1..maxJobs, e \in Errors :
        MarkFail(w, j, e) /\ RetriesWithin(maxRetries)' /\ UNCHANGED <<fleetVars, auxVars>>
  \/ \E w \in Workers, j \in 1..maxJobs :
        JobHeartbeat(w, j) /\ UNCHANGED <<fleetVars, auxVars>>
  \/ \E w \in Workers, kinds \in SUBSET Kinds :
        SvcClaimJob(w, kinds) /\ UNCHANGED <<fleetVars, auxVars>>
  \/ \E w \in Workers : SvcSessionClose(w) /\ UNCHANGED <<fleetVars, auxVars>>
  \/ \E w \in Workers, j \in 1..maxJobs, st \in Statuses :
        \E a \in StatusArgs(st) :
           /\ UpdateJobStatus(w, j, st, a[1], a[2])
           /\ RetriesWithin(maxRetries)'
           /\ UNCHANGED <<fleetVars, auxVars>>
  \/ \E T \in Timeouts :
        RequeueStuckJobs(T) /\ RetriesWithin(maxRetries)' /\ UNCHANGED <<fleetVars, auxVars>>
  \/ \E j \in 1..maxJobs : CancelJob(j) /\ UNCHANGED <<fleetVars, auxVars>>

Next == NextWithin(MaxJobs, MaxTime, MaxRetries)

NextBacklog == NextWithin(BacklogJobs, BacklogTime, BacklogRetries)

Spec == Init /\ [][Next]_vars

SpecBacklog == Init /\ [][NextBacklog]_vars

(* ------------------------ a queue that never ends ---------------------- *)
\* working_main.create_job once the table holds as many rows as the model
\* keeps: the row of a completed job, which no claim selects again, stands for
\* the row of the new job, so that submissions can go on for ever
EnqueueJobInto(j, kind, priority) ==
  /\ j \in JobIds
  /\ jobs[j].status = "completed"
  /\ j \notin Locked
  /\ jobs' = [jobs EXCEPT ![j] = NewJob(kind, priority)]
  /\ handed' = [handed EXCEPT ![j] = {}]
  /\ gap' = [gap EXCEPT ![j] = 0]
  /\ lost' = [lost EXCEPT ![j] = NoWorker]
  /\ ret' = Created(j)
  /\ UNCHANGED <<now, pc, sel, selAt>>

\* the holder of a running job reports it done and the report is accepted
ReportDone(w, j) ==
  /\ j \in JobIds
  /\ jobs[j].status = "running"
  /\ \E r \in Results : MarkDone(w, j, r) /\ ret' = "204"

\* created_at is CURRENT_TIMESTAMP: a job is submitted at a later instant than
\* the jobs that are waiting, so that created_at orders the queued jobs
LaterInstant ==
  \A k \in JobIds : jobs[k].status = "queued" => jobs[k].created_at < now

\* submissions, claims and done reports, with no end to the submissions
NextQueueWithin(maxJobs, maxTime) ==
  \/ /\ Len(jobs) < maxJobs
     /\ LaterInstant
     /\ \E s \in Submissions : EnqueueJob(s[1], s[2])
     /\ UNCHANGED <<fleetVars, auxVars>>
  \/ /\ LaterInstant
     /\ \E j \in 1..maxJobs, s \in Submissions : EnqueueJobInto(j, s[1], s[2])
     /\ UNCHANGED <<fleetVars, auxVars>>
  \/ /\ now < maxTime
     /\ Tick
     /\ UNCHANGED <<fleetVars, auxVars>>
  \/ \E w \in Workers : ClaimSelect(w) /\ UNCHANGED <<fleetVars, auxVars>>
  \/ \E w \in Workers : ClaimCommit(w) /\ UNCHANGED <<fleetVars, auxVars>>
  \/ \E w \in Workers, j \in 1..maxJobs : ReportDone(w, j) /\ UNCHANGED <<fleetVars, auxVars>>

NextQueue == NextQueueWithin(QueueJobs, QueueTime)

\* every worker keeps polling (worker client contract), every request handler
\* runs to its end, and every claimed job is eventually reported done
QueueFairness ==
  /\ \A w \in Workers : WF_vars(ClaimSelect(w) /\ UNCHANGED <<fleetVars, auxVars>>)
  /\ \A w \in Workers : WF_vars(ClaimCommit(w) /\ UNCHANGED <<fleetVars, auxVars>>)
  /\ \A w \in Workers, j \in 1..QueueJobs :
        WF_vars(ReportDone(w, j) /\ UNCHANGED <<fleetVars, auxVars>>)

SpecQueue == Init /\ [][NextQueue]_vars /\ QueueFairness

(* --------------------------- fleet controller -------------------------- *)
\* settings.GPU_IDLE_TIMEOUT_SEC
IdleThreshold == 180

\* idle_seconds passed to maybe_shutdown_gpu: below, at and above the threshold
IdleInputs == {179, 180, 181}

\* what the provider does with GET /v0/instances/{id}: a 200 answer carrying
\* the state, or a request error / non-200 answer
CheckAnswers == {"ok", "error"}

\* what the provider does with POST /v0/instances: 2xx with an id, 2xx without
\* an id, or an error status / exception
ProvisionOutcomes == {"created", "no_id", "error"}

\* what the provider does with the stop / destroy request
ShutdownOutcomes == {"accepted", "error"}

\* the instances the provider still runs or starts
Live == {i \in DOMAIN instances : instances[i] \in {"loading", "running"}}

Completed(op, outcome, r) == [op |-> op, outcome |-> outcome, ret |-> r]

\* the provider finishes starting an instance
InstanceBoots(i) ==
  /\ i \in DOMAIN instances
  /\ instances[i] = "loading"
  /\ instances' = [instances EXCEPT ![i] = "running"]
  /\ UNCHANGED <<active, mode, fpc, existing, done, reuse>>

IsInstanceRunningNever(id, answer) == FALSE

\* _is_instance_running: False on an exception or a non-200 answer (an id the
\* provider does not know included), else "run" in state
IsInstanceRunning(id, answer) ==
  /\ answer = "ok"
  /\ id \in DOMAIN instances
  /\ instances[id] = "running"

\* ensure_gpu_instance, line 68: existing = get_active_instance_id()
EnsureRead(r) ==
  /\ fpc[r] = "idle"
  /\ fpc' = [fpc EXCEPT ![r] = "ens_read"]
  /\ existing' = [existing EXCEPT ![r] = active]
  /\ UNCHANGED <<active, instances, mode, done, reuse>>

\* ensure_gpu_instance, lines 69-71: if existing and
\* _is_instance_running(existing): return existing; else go on to create
EnsureCheck(r, answer) ==
  /\ fpc[r] = "ens_read"
  /\ IF existing[r] # NoInstance /\ IsInstanceRunning(existing[r], answer)
     THEN /\ fpc' = [fpc EXCEPT ![r] = "idle"]
          /\ done' = [done EXCEPT ![r] = Completed("ensure", "already_running", existing[r])]
          /\ reuse' = IF reuse < 2 THEN reuse + 1 ELSE reuse
     ELSE /\ fpc' = [fpc EXCEPT ![r] = "ens_create"]
          /\ UNCHANGED <<done, reuse>>
  /\ UNCHANGED <<active, instances, mode, existing>>

\* ensure_gpu_instance, lines 80-87 and 91-93: POST /v0/instances,
\* raise_for_status, instance_id = str(id); an exception returns None
EnsureProvision(r, outcome) ==
  /\ fpc[r] = "ens_create"
  /\ reuse' = 0
  /\ CASE outcome = "created" ->
            /\ instances' = Append(instances, "loading")
            /\ existing' = [existing EXCEPT ![r] = Len(instances) + 1]
            /\ fpc' = [fpc EXCEPT ![r] = "ens_write"]
            /\ UNCHANGED done
       [] outcome = "no_id" ->
            /\ existing' = [existing EXCEPT ![r] = StrNone]
            /\ fpc' = [fpc EXCEPT ![r] = "ens_write"]
            /\ UNCHANGED <<instances, done>>
       [] OTHER ->
            /\ fpc' = [fpc EXCEPT ![r] = "idle"]
            /\ done' = [done EXCEPT ![r] = Completed("ensure", "provider_error", NoInstance)]
            /\ UNCHANGED <<instances, existing>>
  /\ UNCHANGED <<active, mode>>

\* ensure_gpu_instance, lines 88-90: set_active_instance_id(instance_id),
\* return instance_id
EnsureWrite(r) ==
  /\ fpc[r] = "ens_write"
  /\ active' = existing[r]
  /\ fpc' = [fpc EXCEPT ![r] = "idle"]
  /\ done' = [done EXCEPT ![r] = Completed("ensure", "provisioned", existing[r])]
  /\ reuse' = 0
  /\ UNCHANGED <<instances, mode, existing>>

BelowThresholdOffByOne(idle_seconds) == idle_seconds < IdleThreshold - 1

\* maybe_shutdown_gpu, line 130
BelowThreshold(idle_seconds) == idle_seconds < IdleThreshold

\* maybe_shutdown_gpu, lines 127-131: read the key, return when there is no
\* instance or the idle time is below the threshold
ShutdownRead(r, idle_seconds) ==
  /\ fpc[r] = "idle"
  /\ IF active = NoInstance
     THEN /\ done' = [done EXCEPT ![r] = Completed("shutdown", "no_instance", NoInstance)]
          /\ UNCHANGED <<fpc, existing>>
     ELSE IF BelowThreshold(idle_seconds)
     THEN /\ done' = [done EXCEPT ![r] = Completed("shutdown", "below_threshold", NoInstance)]
          /\ UNCHANGED <<fpc, existing>>
     ELSE /\ fpc' = [fpc EXCEPT ![r] = "shut_call"]
          /\ existing' = [existing EXCEPT ![r] = active]
          /\ UNCHANGED done
  /\ UNCHANGED <<active, instances, mode, reuse>>

\* the state the provider gives the instance: destroy_instance when STOP_MODE
\* is destroy, stop_instance otherwise
StoppedAs(m) == IF m = "destroy" THEN "destroyed" ELSE "stopped"

\* stop_instance / destroy_instance up to the answer of the provider: a
\* status in (200, 202, 204) goes on to clear the key, anything else returns
\* False, which maybe_shutdown_gpu drops (it returns None)
ShutdownCall(r, outcome) ==
  /\ fpc[r] = "shut_call"
  /\ reuse' = 0
  /\ IF outcome = "accepted"
     THEN /\ existing[r] \in Live \cup {i \in DOMAIN instances : instances[i] = "stopped"}
          /\ instances' = [instances EXCEPT ![existing[r]] = StoppedAs(mode)]
          /\ fpc' = [fpc EXCEPT ![r] = "shut_clear"]
          /\ UNCHANGED done
     ELSE /\ fpc' = [fpc EXCEPT ![r] = "idle"]
          /\ done' = [done EXCEPT ![r] = Completed("shutdown", "provider_error", NoInstance)]
          /\ UNCHANGED instances
  /\ UNCHANGED <<active, mode, existing>>

\* stop_instance / destroy_instance, lines 102-103 / 117-118:
\* set_active_instance_id(None) deletes the key
ShutdownClear(r) ==
  /\ fpc[r] = "shut_clear"
  /\ active' = NoInstance
  /\ fpc' = [fpc EXCEPT ![r] = "idle"]
  /\ done' = [done EXCEPT ![r] = Completed("shutdown", "shut_down", NoInstance)]
  /\ reuse' = 0
  /\ UNCHANGED <<instances, mode, existing>>

\* one step of a fleet-controller call or of the provider, while the provider
\* has created at most maxInstances instances
NextFleetWithin(maxInstances) ==
  \/ \E i \in 1..maxInstances : InstanceBoots(i) /\ UNCHANGED <<jobVars, auxVars>>
  \/ \E r \in Replicas : EnsureRead(r) /\ UNCHANGED <<jobVars, auxVars>>
  \/ \E r \in Replicas, a \in CheckAnswers : EnsureCheck(r, a) /\ UNCHANGED <<jobVars, auxVars>>
  \/ \E r \in Replicas, o \in ProvisionOutcomes :
        /\ o = "created" => Len(instances) < maxInstances
        /\ EnsureProvision(r, o)
        /\ UNCHANGED <<jobVars, auxVars>>
  \/ \E r \in Replicas : EnsureWrite(r) /\ UNCHANGED <<jobVars, auxVars>>
  \/ \E r \in Replicas, s \in IdleInputs : ShutdownRead(r, s) /\ UNCHANGED <<jobVars, auxVars>>
  \/ \E r \in Replicas, o \in ShutdownOutcomes : ShutdownCall(r, o) /\ UNCHANGED <<jobVars, auxVars>>
  \/ \E r \in Replicas : ShutdownClear(r) /\ UNCHANGED <<jobVars, auxVars>>

NextFleet == NextFleetWithin(MaxInstances)

InitFleet ==
  /\ JobsInit
  /\ FleetInit(StopModes)

SpecFleet == InitFleet /\ [][NextFleet]_vars

(* --------------------------- attempts of a job ------------------------- *)
\* bounds of SpecRetry
RetryJobs == 1
RetryBound == 4

\* j has status running after the step and did not have it before
EntersRunning(j) ==
  /\ jobs'[j].status = "running"
  /\ (j \in JobIds => jobs[j].status # "running")

\* runs counts, for each job, the steps that wrote status running to its row:
\* the UPDATE of workers.claim_job (lines 38-42) and the commit of
\* update_job_status (line 103)
CountRuns ==
  runs' = [j \in DOMAIN jobs' |->
             (IF j \in DOMAIN runs THEN runs[j] ELSE 0)
                + (IF EntersRunning(j) THEN 1 ELSE 0)]

\* submissions, claims, reports and status updates, each step counted in runs
NextRetryWithin(maxJobs, maxRetries) ==
  \/ /\ Len(jobs) < maxJobs
     /\ \E s \in Submissions : EnqueueJob(s[1], s[2])
     /\ CountRuns
     /\ UNCHANGED <<fleetVars, swp, client>>
  \/ \E w \in Workers :
        ClaimSelect(w) /\ CountRuns /\ UNCHANGED <<fleetVars, swp, client>>
  \/ \E w \in Workers :
        ClaimCommit(w) /\ CountRuns /\ UNCHANGED <<fleetVars, swp, client>>
  \/ \E w \in Workers, j \in 1..maxJobs, r \in Results :
        MarkDone(w, j, r) /\ CountRuns /\ UNCHANGED <<fleetVars, swp, client>>
  \/ \E w \in Workers, j \in 1..maxJobs, e \in Errors :
        /\ MarkFail(w, j, e)
        /\ RetriesWithin(maxRetries)'
        /\ CountRuns
        /\ UNCHANGED <<fleetVars, swp, client>>
  \/ \E w \in Workers, j \in 1..maxJobs, st \in Statuses :
        \E a \in StatusArgs(st) :
           /\ UpdateJobStatus(w, j, st, a[1], a[2])
           /\ RetriesWithin(maxRetries)'
           /\ CountRuns
           /\ UNCHANGED <<fleetVars, swp, client>>

NextRetry == NextRetryWithin(RetryJobs, RetryBound)

SpecRetry == Init /\ [][NextRetry]_vars

(* ----------------------- a sweep among the reports ---------------------- *)
\* bounds of SpecSweep
SweepJobs == 1
SweepTime == 2
SweepRetries == 3

\* requeue_stuck_jobs, lines 158-164: the threshold and the query; the
\* session holds the rows as they were read, no row is locked
SweepRead(T) ==
  /\ swp.at = "idle"
  /\ swp' = [at |-> "read", stuck |-> Stuck(T),
                loaded |-> [j \in Stuck(T) |-> jobs[j]]]
  /\ ret' = "none"
  /\ UNCHANGED <<jobs, now, pc, sel, selAt, handed, gap, lost>>

\* the UPDATE that the commit of requeue_stuck_jobs flushes for one row: the
\* columns assigned in the loop (lines 168-178), computed from the row as it
\* was read, are written over the row as it is now; the other columns are left
SweepWrite(cur, loaded) ==
  LET r == SweepRow(loaded) IN
  [cur EXCEPT !.status = r.status,
              !.reserved_by = r.reserved_by,
              !.reserved_at = r.reserved_at,
              !.retries = r.retries,
              !.updated_at = r.updated_at,
              !.completed_at = IF r.status = "failed" THEN r.completed_at ELSE @,
              !.error_message = IF r.status = "failed" THEN r.error_message ELSE @]

\* requeue_stuck_jobs, lines 166-182: the loop over the rows read and the
\* commit
SweepCommit ==
  /\ swp.at = "read"
  /\ swp.stuck \cap Locked = {}
  /\ jobs' = [j \in JobIds |->
                 IF j \in swp.stuck THEN SweepWrite(jobs[j], swp.loaded[j])
                 ELSE jobs[j]]
  /\ gap' = [j \in JobIds |-> IF j \in swp.stuck THEN 0 ELSE gap[j]]
  /\ lost' = [j \in JobIds |->
                 IF j \in swp.stuck THEN swp.loaded[j].reserved_by ELSE lost[j]]
  /\ ret' = "swept"
  /\ swp' = NoSweep
  /\ UNCHANGED <<now, pc, sel, selAt, handed>>

\* claims and reports of the workers while one requeue_stuck_jobs call runs
\* step by step
NextSweepWithin(maxJobs, maxTime, maxRetries) ==
  \/ /\ Len(jobs) < maxJobs
     /\ \E s \in Submissions : EnqueueJob(s[1], s[2])
     /\ UNCHANGED <<fleetVars, auxVars>>
  \/ /\ now < maxTime
     /\ Tick
     /\ UNCHANGED <<fleetVars, auxVars>>
  \/ \E w \in Workers : ClaimSelect(w) /\ UNCHANGED <<fleetVars, auxVars>>
  \/ \E w \in Workers : ClaimCommit(w) /\ UNCHANGED <<fleetVars, auxVars>>
  \/ \E w \in Workers, j \in 1..maxJobs, r \in Results :
        MarkDone(w, j, r) /\ UNCHANGED <<fleetVars, auxVars>>
  \/ \E w \in Workers, j \in 1..maxJobs, e \in Errors :
        /\ MarkFail(w, j, e)
        /\ RetriesWithin(maxRetries)'
        /\ UNCHANGED <<fleetVars, auxVars>>
  \/ \E T \in Timeouts : SweepRead(T) /\ UNCHANGED <<fleetVars, runs, client>>
  \/ /\ SweepCommit
     /\ RetriesWithin(maxRetries)'
     /\ UNCHANGED <<fleetVars, runs, client>>

NextSweep == NextSweepWithin(SweepJobs, SweepTime, SweepRetries)

SpecSweep == Init /\ [][NextSweep]_vars

(* --------------------------- worker processes -------------------------- *)
\* bound of SpecClient
ClientJobs == 2

\* the program each worker process runs: worker/executor.py or
\* backend/workers/worker.py (GPUWorker)
Program(w) == IF w = "w1" THEN "executor" ELSE "gpu_worker"

\* the routes of routers/workers.py that change a job
Routes ==
  {<<"POST", "claim">>, <<"POST", "done">>, <<"POST", "fail">>,
   <<"POST", "heartbeat">>}

\* the required fields of the request body: JobDoneRequest, JobFailRequest
RequiredFields(route) ==
  CASE route = "done" -> {"result_json"}
    [] route = "fail" -> {"error_message"}
    [] OTHER -> {}

\* the request a worker process sends when the job succeeded: update_done
\* posts the result dict as the body; GPUWorker.update_job_status sends a
\* PATCH to /workers/jobs/{id}/status
DoneRequest(prog) ==
  IF prog = "executor"
  THEN [method |-> "POST", route |-> "done", body |-> {"object_key"}]
  ELSE [method |-> "PATCH", route |-> "status",
        body |-> {"status", "result_data", "error_message"}]

\* the request a worker process sends when the job failed: update_fail posts
\* {"error": msg}; GPUWorker.update_job_status as above
FailRequest(prog) ==
  IF prog = "executor"
  THEN [method |-> "POST", route |-> "fail", body |-> {"error"}]
  ELSE [method |-> "PATCH", route |-> "status",
        body |-> {"status", "result_data", "error_message"}]

\* a worker process between two claims: time.sleep(4) / asyncio.sleep(5)
Sleeping == [at |-> "sleep", job |-> 0]

\* the core receives a report of worker w on job j: 404 when no route matches,
\* 422 when the body lacks a required field, else the handler of the route
Receive(w, j, req) ==
  IF <<req.method, req.route>> \notin Routes
  THEN /\ ret' = "404"
       /\ UNCHANGED <<jobs, now, pc, sel, selAt, handed, gap, lost>>
  ELSE IF ~(RequiredFields(req.route) \subseteq req.body)
  THEN /\ ret' = "422"
       /\ UNCHANGED <<jobs, now, pc, sel, selAt, handed, gap, lost>>
  ELSE IF req.route = "done"
  THEN \E r \in Results : MarkDone(w, j, r)
  ELSE \E e \in Errors : MarkFail(w, j, e)

\* claim_job of the worker process up to the SELECT of the endpoint: on 204
\* the process gets no job and goes to sleep
ClientClaim(w) ==
  /\ client[w].at = "poll"
  /\ ClaimSelect(w)
  /\ client' = [client EXCEPT ![w] = IF ret' = "claim 204" THEN Sleeping
                                     ELSE [at |-> "await", job |-> 0]]

\* the endpoint commits and answers 200: the process starts on the job
ClientClaimed(w) ==
  /\ client[w].at = "await"
  /\ ClaimCommit(w)
  /\ client' = [client EXCEPT ![w] = [at |-> "execute", job |-> sel[w]]]

\* the sleep ends, the loop calls claim again
ClientWake(w) ==
  /\ client[w].at = "sleep"
  /\ client' = [client EXCEPT ![w] = Polling]
  /\ ret' = "none"
  /\ UNCHANGED <<jobs, now, pc, sel, selAt, handed, gap, lost>>

\* process_job ends: the process sends its done or fail request, does not
\* look at the answer and goes back to claim
ClientReport(w, outcome) ==
  /\ client[w].at = "execute"
  /\ Receive(w, client[w].job,
             IF outcome = "done" THEN DoneRequest(Program(w))
             ELSE FailRequest(Program(w)))
  /\ client' = [client EXCEPT ![w] = Polling]

\* the worker processes in their loops, and users who submit jobs
NextClientWithin(maxJobs) ==
  \/ /\ Len(jobs) < maxJobs
     /\ \E s \in Submissions : EnqueueJob(s[1], s[2])
     /\ UNCHANGED <<fleetVars, auxVars>>
  \/ \E w \in Workers : ClientClaim(w) /\ UNCHANGED <<fleetVars, swp, runs>>
  \/ \E w \in Workers : ClientClaimed(w) /\ UNCHANGED <<fleetVars, swp, runs>>
  \/ \E w \in Workers : ClientWake(w) /\ UNCHANGED <<fleetVars, swp, runs>>
  \/ \E w \in Workers, o \in {"done", "fail"} :
        ClientReport(w, o) /\ UNCHANGED <<fleetVars, swp, runs>>

NextClient == NextClientWithin(ClientJobs)

SpecClient == Init /\ [][NextClient]_vars

(* ------------------------------ claims --------------------------------- *)
\* k is ahead of j in ORDER BY priority DESC, created_at ASC
Outranks(k, j) ==
  \/ jobs[k].priority > jobs[j].priority
  \/ (jobs[k].priority = jobs[j].priority /\ jobs[k].created_at < jobs[j].created_at)

Queued(kinds) ==
  {k \in JobIds : jobs[k].status = "queued" /\ jobs[k].kind \in kinds}

\* C1: however the select and update steps of concurrent claims interleave, no
\* two claims in flight hold the same row, and every job in status running was
\* handed to exactly one caller since it last left queued.
C1_MutualExclusion ==
  /\ \A w1 \in Workers, w2 \in Workers :
        (w1 # w2 /\ pc[w1] # "idle" /\ pc[w2] # "idle") => sel[w1] # sel[w2]
  /\ \A j \in JobIds :
        jobs[j].status = "running" => Cardinality(handed[j]) = 1

\* C1 witness: a job is running in the hands of one worker while the claim of
\* another worker is in flight on a different row of the same backlog.
C1_Witness ==
  \E w1 \in Workers, w2 \in Workers, j1 \in JobIds, j2 \in JobIds :
     /\ w1 # w2 /\ j1 # j2
     /\ jobs[j1].status = "running" /\ handed[j1] = {w1}
     /\ pc[w2] = "selected" /\ sel[w2] = j2

\* C2 as stated: a claim that selects a job selects the highest-priority, then
\* oldest, job among all jobs with status = queued matching its filter, and the
\* job it turns to running was queued.
C2_BestOfAllQueued ==
  [][/\ \A w \in Workers :
           (pc[w] = "idle" /\ pc'[w] = "selected")
              => \A k \in Queued(Kinds) : ~Outranks(k, sel'[w])
     /\ \A w \in Workers, kinds \in SUBSET Kinds :
           (SvcClaimJob(w, kinds) /\ pc'[w] = "svc_claimed")
              => \A k \in Queued(KindFilter(kinds)) : ~Outranks(k, sel'[w])
     /\ \A w \in Workers :
           ClaimCommit(w) => jobs[sel[w]].status = "queued"]_vars

\* C2 amended: a claim that selects a job selects the highest-priority, then
\* oldest, job among the queued jobs matching its filter that are not locked
\* by another claim in flight; the job it selects is queued, it is still
\* queued when the claim turns it to running, and no other job is modified.
C2_BestOfUnlockedQueued ==
  [][/\ \A w \in Workers :
           (pc[w] = "idle" /\ pc'[w] = "selected")
              => /\ sel'[w] \in Queued(Kinds) \ Locked
                 /\ \A k \in Queued(Kinds) \ Locked : ~Outranks(k, sel'[w])
     /\ \A w \in Workers, kinds \in SUBSET Kinds :
           (SvcClaimJob(w, kinds) /\ pc'[w] = "svc_claimed")
              => /\ sel'[w] \in Queued(KindFilter(kinds)) \ Locked
                 /\ \A k \in Queued(KindFilter(kinds)) \ Locked : ~Outranks(k, sel'[w])
     /\ \A w \in Workers :
           ClaimCommit(w)
              => /\ jobs[sel[w]].status = "queued"
                 /\ \A k \in JobIds \ {sel[w]} : jobs'[k] = jobs[k]]_vars

\* C2 witness: job a (priority 5) was enqueued before job b (priority 9), and
\* a claim has returned b while a is still queued.
C2_Witness ==
  \E a \in JobIds, b \in JobIds :
     /\ a < b /\ jobs[a].priority = 5 /\ jobs[b].priority = 9
     /\ jobs[a].created_at < jobs[b].created_at
     /\ jobs[a].status = "queued" /\ jobs[b].status = "running"
     /\ ret = "claim 200"

\* C3 as stated: whenever a claim returns a job to worker w (the HTTP endpoint
\* at its commit, JobOrchestrationService.claim_job at its return), the jobs
\* table holds that job committed with status running, reserved_by = w and
\* reserved_at, started_at and updated_at equal to the claim time.
C3_ReturnedIsPersisted ==
  [][\A w \in Workers :
        LET held(j) == /\ jobs'[j].status = "running"
                       /\ jobs'[j].reserved_by = w
                       /\ jobs'[j].reserved_at = now
                       /\ jobs'[j].started_at = now
                       /\ jobs'[j].updated_at = now
        IN /\ (pc[w] = "selected" /\ pc'[w] = "idle") => held(sel[w])
           /\ (pc[w] = "idle" /\ pc'[w] = "svc_claimed") => held(sel'[w])]_vars

\* C4 as stated: reserved_by is non-empty if and only if status = running.
C4_ReservedIffRunning ==
  \A j \in JobIds : (jobs[j].reserved_by # NoWorker) <=> (jobs[j].status = "running")

\* C5: a done, fail or heartbeat call by a worker that is not the job's
\* reserved_by (an empty reserved_by included) is answered 403 and changes no
\* field of any job; update_job_status by such a worker returns False and
\* changes nothing.
C5_NonHolderRejected ==
  [][/\ \A w \in Workers, j \in JobIds :
          jobs[j].reserved_by # w
             => /\ \A r \in Results :
                      MarkDone(w, j, r) => (ret' = "403" /\ jobs' = jobs)
                /\ \A e \in Errors :
                      MarkFail(w, j, e) => (ret' = "403" /\ jobs' = jobs)
                /\ JobHeartbeat(w, j) => (ret' = "403" /\ jobs' = jobs)
     /\ \A w \in Workers, j \in JobIds, st \in Statuses :
          View(w)[j].reserved_by # w
             => \A a \in StatusArgs(st) :
                   UpdateJobStatus(w, j, st, a[1], a[2])
                      => (ret' = "False" /\ jobs' = jobs)]_vars

\* C5 witness: a call on a running job by a worker that does not hold it has
\* just been answered 403.
C5_Witness ==
  /\ ret = "403"
  /\ \E j \in JobIds : jobs[j].status = "running" /\ jobs[j].reserved_by \in Workers

\* a job in a terminal state: completed, cancelled, or failed with its
\* retries exhausted
Terminal(job) ==
  \/ job.status \in {"completed", "cancelled"}
  \/ (job.status = "failed" /\ job.retries >= RetryCeiling)

\* C6 as stated: once a job is in a terminal state, no operation changes its
\* status or any other field.
C6_TerminalIsFrozen ==
  [][\A j \in JobIds : Terminal(jobs[j]) => jobs'[j] = jobs[j]]_vars

\* C7 as stated: a job whose retries is at least 3 is never queued or running.
C7_ExhaustedNeverRuns ==
  \A j \in JobIds :
     jobs[j].retries >= RetryCeiling => jobs[j].status \notin {"queued", "running"}

C9_SweepByUpdatedAt ==
  [][\A T \in Timeouts :
        RequeueStuckJobs(T)
           => \A j \in JobIds :
                 IF jobs[j].status = "running" /\ jobs[j].updated_at < now - T
                 THEN /\ jobs'[j].status \in {"queued", "failed"}
                      /\ jobs'[j].retries = jobs[j].retries + 1
                 ELSE jobs'[j] = jobs[j]]_vars

\* C10 as stated: a running job whose holder has given a sign of life (the
\* claim, then heartbeats) at intervals always shorter than T, the last one
\* less than T ago, is not changed by Sweep(T).
C10_HeartbeatKeepsJob ==
  [][\A T \in Timeouts :
        RequeueStuckJobs(T)
           => \A j \in JobIds :
                 (/\ jobs[j].status = "running"
                  /\ gap[j] < T
                  /\ now - jobs[j].updated_at < T)
                    => jobs'[j] = jobs[j]]_vars

\* C11: a fresh job (retries = 0) claimed by a worker that has given no sign of
\* life since the claim is, by the first Sweep(T) that runs more than T after
\* the claim, returned to queued with retries = 1 and its reservation
\* (reserved_by, reserved_at) cleared, and is eligible for Claim again.
C11_SilentWorkerRequeued ==
  [][\A T \in Timeouts :
        RequeueStuckJobs(T)
           => \A j \in JobIds :
                 (/\ jobs[j].status = "running"
                  /\ jobs[j].retries = 0
                  /\ jobs[j].reserved_at # NoTime
                  /\ jobs[j].updated_at = jobs[j].reserved_at
                  /\ now - jobs[j].reserved_at > T)
                    => /\ jobs'[j].status = "queued"
                       /\ jobs'[j].retries = 1
                       /\ jobs'[j].reserved_by = NoWorker
                       /\ jobs'[j].reserved_at = NoTime
                       /\ (j \in Eligible(Kinds))']_vars

\* C11 witness: a sweep has just returned a claimed job, on which no failure
\* was ever reported, to queued with retries = 1 and no reservation.
C11_Witness ==
  /\ ret = "swept"
  /\ \E j \in JobIds :
        /\ handed[j] # {}
        /\ jobs[j].status = "queued"
        /\ jobs[j].retries = 1
        /\ jobs[j].reserved_by = NoWorker
        /\ jobs[j].reserved_at = NoTime
        /\ jobs[j].error_message = NoError
        /\ jobs[j].updated_at = now

\* C12 as stated: each of the first three failure-triggering events of a job
\* (a fail report or a timeout, retries going from 0, 1 or 2 to the next value)
\* requeues the running job, and only the fourth sets it to failed.
C12_FailedOnlyByFourthFailure ==
  [][\A j \in JobIds :
        (/\ jobs[j].status = "running"
         /\ jobs'[j].retries = jobs[j].retries + 1)
           => jobs'[j].status = IF jobs[j].retries < RetryCeiling
                                THEN "queued" ELSE "failed"]_vars

\* C13: an EnsureCapacity call whose status check finds the recorded instance
\* running sends no provisioning request, returns the recorded id and leaves
\* Fleet State and the provider's instances unchanged; after two such calls in
\* a row the instances that exist are the ones that existed before.
C13_EnsureIsIdempotent ==
  [][\A r \in Replicas :
        (/\ EnsureCheck(r, "ok")
         /\ existing[r] \in DOMAIN instances
         /\ instances[existing[r]] = "running")
           => /\ fpc'[r] = "idle"
              /\ done'[r] = Completed("ensure", "already_running", existing[r])
              /\ active' = active
              /\ instances' = instances]_vars

\* C13 witness: two EnsureCapacity calls in a row have found the recorded
\* instance running, and it is the only instance that exists.
C13_Witness ==
  /\ reuse = 2
  /\ Live = {active}
  /\ Len(instances) = 1
  /\ \A r \in Replicas : fpc[r] = "idle"

\* C14 as stated: once an instance X has been provisioned and recorded, an
\* EnsureCapacity call that reads X and gets an answer from the provider,
\* whatever start-up state X is in (still loading or running), sends no
\* provisioning request and leaves X recorded.
C14_NoSecondProvisioning ==
  [][\A r \in Replicas :
        (/\ EnsureCheck(r, "ok")
         /\ existing[r] = active
         /\ active \in Live)
           => /\ fpc'[r] = "idle"
              /\ active' = active]_vars

\* C15 as stated: of the EnsureCapacity calls that run concurrently, at most
\* one has provisioned an instance.
C15_AtMostOneProvisions ==
  \A r1 \in Replicas, r2 \in Replicas :
     (fpc[r1] = "ens_write" /\ fpc[r2] = "ens_write") => r1 = r2

\* C16 as stated: a step in which the provider fails the start, stop or destroy
\* request leaves Fleet State as it was, and the call returns a value that no
\* successful or no-op call of the same operation has returned.
C16_ProviderFailureSurfaced ==
  [][\A r \in Replicas :
        (EnsureProvision(r, "error") \/ ShutdownCall(r, "error"))
           => /\ active' = active
              /\ \A q \in Replicas :
                    (/\ done[q].op = done'[r].op
                     /\ done[q].outcome # "provider_error")
                       => done'[r].ret # done[q].ret]_vars

\* C17 as stated: when Fleet State records an instance (here one the provider
\* still runs) and the status check fails or is inconclusive, EnsureCapacity
\* does not go on to provision and does not change Fleet State.
C17_UncertainCheckNoProvision ==
  [][\A r \in Replicas :
        (/\ EnsureCheck(r, "error")
         /\ existing[r] = active
         /\ active \in Live)
           => /\ fpc'[r] # "ens_create"
              /\ active' = active]_vars

\* C18: MaybeShutdown(idleSeconds) with idleSeconds below the threshold sends
\* no stop or destroy request and leaves Fleet State and the instances
\* unchanged, whether or not an instance is recorded.
C18_BelowThresholdNoOp ==
  [][\A r \in Replicas, s \in IdleInputs :
        (ShutdownRead(r, s) /\ s < IdleThreshold)
           => /\ fpc'[r] = "idle"
              /\ active' = active
              /\ instances' = instances]_vars

\* C18 witness: a MaybeShutdown call has returned because the idle time was
\* below the threshold while an instance is recorded and running.
C18_Witness ==
  \E r \in Replicas :
     /\ done[r] = Completed("shutdown", "below_threshold", NoInstance)
     /\ fpc[r] = "idle"
     /\ active \in Live

\* C19 as stated: MaybeShutdown(idleSeconds) goes on to stop or destroy the
\* recorded instance if and only if an instance is recorded and idleSeconds
\* exceeds the threshold; the provider stops or destroys per the mode, and
\* Fleet State is cleared only after the provider accepted the request.
C19_ShutdownIffIdleExceeds ==
  [][/\ \A r \in Replicas, s \in IdleInputs :
           ShutdownRead(r, s)
              => (fpc'[r] = "shut_call" <=> (active # NoInstance /\ s > IdleThreshold))
     /\ \A r \in Replicas :
           ShutdownCall(r, "accepted")
              => instances'[existing[r]] = StoppedAs(mode)
     /\ \A r \in Replicas :
           (active # NoInstance /\ active' = NoInstance /\ fpc[r] # fpc'[r])
              => fpc[r] = "shut_clear"]_vars

\* C20: a claim issued when no queued job that matches the filter is free to
\* be taken returns the 'no job' outcome (204 from the endpoint, None from the
\* service) and changes no field of any job, and no claim stays in flight.
C20_NoJobIsNotAnError ==
  [][/\ \A w \in Workers :
           (ClaimSelect(w) /\ Queued(Kinds) \ Locked = {})
              => /\ ret' = "claim 204"
                 /\ jobs' = jobs
                 /\ pc'[w] = "idle"
     /\ \A w \in Workers, kinds \in SUBSET Kinds :
           (SvcClaimJob(w, kinds) /\ Queued(KindFilter(kinds)) \ Locked = {})
              => /\ ret' = "None"
                 /\ jobs' = jobs
                 /\ pc'[w] = "idle"]_vars

\* C20 witness: a claim has just answered 'no job' on a backlog that holds a
\* job, either not queued or not matching the filter.
C20_Witness ==
  /\ ret \in {"claim 204", "None"}
  /\ \E j \in JobIds : jobs[j].status \in {"queued", "running"}
  /\ \A w \in Workers : pc[w] = "idle"

C22_CancelTransition ==
  [][\A j \in JobIds :
        (\/ CancelJob(j)
         \/ \E w \in Workers :
               /\ UpdateJobStatus(w, j, "cancelled", NoResult, NoError)
               /\ ret' = "True")
           => IF jobs[j].status \in {"queued", "running"}
              THEN /\ jobs'[j].status = "cancelled"
                   /\ jobs'[j].completed_at = now
                   /\ jobs'[j].reserved_by = NoWorker
                   /\ jobs'[j].reserved_at = NoTime
              ELSE jobs'[j] = jobs[j]]_vars

\* C23 as stated: once a job is cancelled, a done or fail report for it from
\* the worker that was executing it answers 204 and changes no field of it.
C23_ReportAfterCancelIsNoOp ==
  [][\A j \in JobIds, w \in Workers :
        (/\ jobs[j].status = "cancelled"
         /\ w \in handed[j]
         /\ \/ \E r \in Results : MarkDone(w, j, r)
            \/ \E e \in Errors : MarkFail(w, j, e))
           => /\ ret' = "204"
              /\ jobs'[j] = jobs[j]]_vars

\* C25 as stated: in every reachable state no job has both a result and an
\* error set.
C25_ResultXorError ==
  \A j \in JobIds :
     ~(jobs[j].result_json # NoResult /\ jobs[j].error_message # NoError)

\* C26: no step of any operation (claim, done, fail, heartbeat, status update,
\* sweep, cancel, enqueue of another job) changes the created_at or the
\* priority of an existing job.
C26_CreatedAtAndPriorityFrozen ==
  [][\A j \in JobIds :
        /\ jobs'[j].created_at = jobs[j].created_at
        /\ jobs'[j].priority = jobs[j].priority]_vars

\* C26 witness: a job created at time 0 that was claimed, requeued by the sweep
\* and claimed again later still carries created_at = 0.
C26_Witness ==
  \E j \in JobIds :
     /\ jobs[j].status = "running"
     /\ jobs[j].retries >= 1
     /\ jobs[j].created_at = 0
     /\ jobs[j].reserved_at > 0

\* the rows of the transition table of the lifecycle state machine
InTransitionTable(from, to) ==
  \/ from = "queued" /\ to \in {"running", "cancelled"}
  \/ from = "running" /\ to \in {"completed", "queued", "failed", "cancelled"}

\* C28 as stated: a step changes a field of a job only along a row of the
\* transition table, or as a heartbeat of a running job; every other requested
\* change leaves the job as it was (a job whose claim by the service is still
\* uncommitted is left aside).
C28_InvalidTransitionRejected ==
  [][\A j \in JobIds :
        (/\ jobs'[j] # jobs[j]
         /\ \A w \in Workers : ~(pc[w] = "svc_claimed" /\ sel[w] = j))
           => \/ InTransitionTable(jobs[j].status, jobs'[j].status)
              \/ jobs[j].status = "running" /\ jobs'[j].status = "running"]_vars

\* C29 as stated: a failure report accepted from the holder of a running job
\* whose retries is below the ceiling, through the fail endpoint or through the
\* status update, leaves the job queued with retries one higher and with
\* reserved_by and reserved_at cleared.
C29_RetryableFailureRequeues ==
  [][\A j \in JobIds, w \in Workers, e \in Errors :
        (/\ jobs[j].status = "running"
         /\ jobs[j].reserved_by = w
         /\ jobs[j].retries < RetryCeiling
         /\ \/ MarkFail(w, j, e) /\ ret' = "204"
            \/ UpdateJobStatus(w, j, "failed", NoResult, e) /\ ret' = "True")
           => /\ jobs'[j].status = "queued"
              /\ jobs'[j].retries = jobs[j].retries + 1
              /\ jobs'[j].reserved_by = NoWorker
              /\ jobs'[j].reserved_at = NoTime]_vars

\* C30 as stated: a success report accepted from the holder of a running job,
\* through the done endpoint or through the status update, leaves the job
\* completed with the reported result, completed_at set and no error.
C30_DoneCompletesAndClearsError ==
  [][\A j \in JobIds, w \in Workers, r \in Results :
        (/\ jobs[j].status = "running"
         /\ jobs[j].reserved_by = w
         /\ \/ MarkDone(w, j, r) /\ ret' = "204"
            \/ UpdateJobStatus(w, j, "completed", r, NoError) /\ ret' = "True")
           => /\ jobs'[j].status = "completed"
              /\ jobs'[j].result_json = r
              /\ jobs'[j].completed_at = now
              /\ jobs'[j].error_message = NoError]_vars

\* C27: once the sweep has taken a job from W1 and another worker W2 has
\* claimed it, a done, fail or heartbeat report (or a status update) sent by W1
\* for that job is rejected and changes no field of any job: the reservation of
\* W2, the status and the result stay what they were.
C27_LateReportOfSweptWorkerRejected ==
  [][\A j \in JobIds, w1 \in Workers :
        (/\ lost[j] = w1
         /\ jobs[j].status = "running"
         /\ jobs[j].reserved_by \notin {w1, NoWorker})
           => /\ \A r \in Results : MarkDone(w1, j, r) => (ret' = "403" /\ jobs' = jobs)
              /\ \A e \in Errors : MarkFail(w1, j, e) => (ret' = "403" /\ jobs' = jobs)
              /\ JobHeartbeat(w1, j) => (ret' = "403" /\ jobs' = jobs)
              /\ \A st \in Statuses : \A a \in StatusArgs(st) :
                    UpdateJobStatus(w1, j, st, a[1], a[2])
                       => (ret' = "False" /\ jobs' = jobs)]_vars

\* C27 witness: W1 lost its job to the sweep, W2 holds it now, and a report was
\* just rejected with 403.
C27_Witness ==
  \E j \in JobIds :
     /\ lost[j] = "w1"
     /\ jobs[j].status = "running"
     /\ jobs[j].reserved_by = "w2"
     /\ jobs[j].retries = 1
     /\ ret = "403"

\* the queued jobs that outrank j: higher priority, or equal priority and older
Outranking(j) ==
  {k \in Queued(Kinds) : Outranks(k, j)}

\* C24 as stated: while workers keep claiming and every claimed job is reported,
\* every queued job is eventually claimed, also while jobs of higher priority
\* keep being enqueued.
C24_EveryQueuedJobClaimed ==
  \A j \in 1..QueueJobs :
     (j \in JobIds /\ jobs[j].status = "queued")
        ~> (j \in JobIds /\ jobs[j].status = "running")

\* C24 amended: while workers keep claiming and every claimed job is reported,
\* a job does not stay queued for ever unless, again and again, another queued
\* job outranks it (higher priority, or equal priority and older).
C24_ClaimedUnlessOutrankedForEver ==
  \A j \in 1..QueueJobs :
     []<>(\/ j \notin JobIds
          \/ jobs[j].status # "queued"
          \/ Outranking(j) # {})

\* C24 witness: the job of priority 5 has been claimed after a job of priority
\* 9, enqueued later, was claimed and completed ahead of it.
C24_Witness ==
  \E a \in JobIds, b \in JobIds :
     /\ a < b
     /\ jobs[a].priority = 5 /\ jobs[a].status = "running"
     /\ jobs[b].priority = 9 /\ jobs[b].status = "completed"

\* C31 as stated: a job with status failed has a non-empty error and a
\* completed_at timestamp, whether a fail report or a liveness timeout failed
\* it.
C31_FailedHasErrorAndCompletedAt ==
  \A j \in JobIds :
     jobs[j].status = "failed"
        => /\ jobs[j].error_message # NoError
           /\ jobs[j].completed_at # NoTime

\* status, retries and reservation of two rows are the same
SameOutcome(a, b) ==
  /\ a.status = b.status
  /\ a.retries = b.retries
  /\ a.reserved_by = b.reserved_by
  /\ a.reserved_at = b.reserved_at

\* C32 as stated: for every running job, whatever its retries, a fail report
\* by the holder (through the endpoint or through the service) and a liveness
\* timeout produce the same status, the same retries and the same reservation
\* fields.
C32_FailAndTimeoutAgree ==
  \A j \in JobIds :
     (jobs[j].status = "running" /\ jobs[j].reserved_by \in Workers)
        => \A e \in Errors :
              /\ SameOutcome(FailRow(jobs[j], e), SweepRow(jobs[j]))
              /\ SameOutcome(StatusRow(jobs[j], "failed", NoResult, e),
                             SweepRow(jobs[j]))

\* the jobs table after one more Sweep(T)
SweptAgain(T) ==
  [j \in JobIds |-> IF j \in Stuck(T) THEN SweepRow(jobs[j]) ELSE jobs[j]]

\* C33: right after a Sweep(T), a second Sweep(T) finds no job to recover and
\* would change no field of any job.
C33_SweepIsIdempotent ==
  [][\A T \in Timeouts :
        RequeueStuckJobs(T) => (Stuck(T)' = {} /\ SweptAgain(T)' = jobs')]_vars

\* C33 witness: a sweep has just failed a job on its third timeout in a row.
C33_Witness ==
  /\ ret = "swept"
  /\ \E j \in JobIds :
        /\ lost[j] \in Workers
        /\ jobs[j].status = "failed"
        /\ jobs[j].retries = RetryCeiling
        /\ jobs[j].error_message = TimeoutError
        /\ jobs[j].completed_at = now

\* C37 as stated: completed_at is set only on a completed, failed or cancelled
\* job; a queued or running job carries none.
C37_CompletedAtOnlyWhenTerminal ==
  \A j \in JobIds :
     jobs[j].completed_at # NoTime
        => jobs[j].status \in {"completed", "failed", "cancelled"}

\* C38 as stated: whenever no fleet call is in flight, every instance the
\* controller has started and not stopped or destroyed is the one recorded in
\* Fleet State; and EnsureCapacity never replaces the recorded identifier
\* while the recorded instance still exists at the provider un-stopped.
C38_NoLeakedInstance ==
  [][/\ (\A r \in Replicas : fpc'[r] = "idle") => Live' \subseteq {active'}
     /\ \A r \in Replicas :
           (EnsureWrite(r) /\ active \in Live) => active' = active]_vars

\* C39 as stated: a successful create response that carries neither id nor
\* instance_id makes ensure_gpu_instance return None and record nothing;
\* Fleet State only ever holds an identifier the provider returned.
C39_NoIdRecordsNothing ==
  [][/\ \A r \in Replicas :
           EnsureProvision(r, "no_id")
              => /\ fpc'[r] = "idle"
                 /\ done'[r].ret = NoInstance
                 /\ active' = active
     /\ active' \in {NoInstance} \cup DOMAIN instances']_vars

\* C36 as stated: over any sequence of claims, reports and status updates a
\* job enters status running at most 4 times, the retry ceiling of 3 plus the
\* first attempt.
C36_AtMostFourAttempts ==
  \A j \in DOMAIN runs : runs[j] <= RetryCeiling + 1

\* the fields that a report or a sweep decides: status, retries, reservation,
\* result and error
SameJob(a, b) ==
  /\ SameOutcome(a, b)
  /\ a.result_json = b.result_json
  /\ a.error_message = b.error_message

\* C34 as stated: when a report of the holder was accepted between the read
\* and the commit of a sweep, the job ends as in one of the two serial orders:
\* as the report left it (the sweep finds it no longer running) or as the
\* sweep alone leaves it (the report of the former holder is then refused); a
\* completed job is never put back to queued or failed.
C34_SweepSerializesWithReports ==
  [][SweepCommit
        => \A j \in swp.stuck :
              jobs[j] # swp.loaded[j]
                 => /\ \/ SameJob(jobs'[j], jobs[j])
                       \/ SameJob(jobs'[j], SweepRow(swp.loaded[j]))
                    /\ jobs[j].status = "completed"
                          => jobs'[j].status = "completed"]_vars

\* C35 as stated: the done or fail request a worker process sends when it has
\* finished a job it claimed is accepted by the core, so that the job leaves
\* status running by that report; and on a 'no job' answer to its claim the
\* process sleeps before it claims again.
C35_ReportOfClientAccepted ==
  [][\A w \in Workers :
        /\ \A o \in {"done", "fail"} :
              ClientReport(w, o)
                 => /\ ret' = "204"
                    /\ jobs'[client[w].job].status # "running"
        /\ (ClientClaim(w) /\ ret' = "claim 204")
              => client'[w] = Sleeping]_vars

====
